---- MODULE Spec2Model ----
(***************************************************************************)
(* FlowFieldRenderer: the audio-reactive multi-pattern visualisation       *)
(* engine (pattern scheduler, audio feature extraction, entity pools).     *)
(*                                                                         *)
(* Numbers.  The engine computes in IEEE doubles.  The model computes the  *)
(* same quantities exactly, as integers in fixed units:                    *)
(*   - an intensity x is held as x * Unit,                                 *)
(*   - hueBase h is held as h * 10 * Unit (degrees, tenths of a Unit),     *)
(*   - transitionProgress p is held as p * 200 * Unit,                     *)
(* where Unit = 128 * lcm(1..MaxLen) makes every mean of at most MaxLen    *)
(* byte samples divided by 128 an integer.  The IEEE value NaN (0/0) is    *)
(* the distinguished value NaN, and every arithmetic operator and          *)
(* comparison treats it as IEEE does.  These quantities are compared with  *)
(* thresholds their exact and their rounded values lie on the same side of.*)
(* A bubble's popProgress is different: ten steps of 0.1 add up to exactly *)
(* 1 in the reals and to 0.9999999999999999 in doubles, so popProgress is  *)
(* held as the IEEE double itself (section Doubles: 53-bit significands,   *)
(* round to nearest, ties to even).                                        *)
(*                                                                         *)
(* Abstraction.  Velocities, radii and colours of particles, bubbles and   *)
(* Voronoi seeds are cosmetic and are not held; a bubble is its lifecycle  *)
(* fields (age, maxAge, popping, popProgress), and whether a bubble's      *)
(* position has left the surface in a frame is an input of the frame (the  *)
(* set esc).  The particles' positions are held as the number of the swarm *)
(* update that set them, the seeds' as the number of their moves.          *)
(* Math.random() draws are inputs, in hundredths.                          *)
(*                                                                         *)
(* Besides the engine: the escape-time loop of renderFractal pixel by      *)
(* pixel (FractalSpec), the page component that constructs the engine      *)
(* (MountSpec), waitForServer of the electron main process (WaitSpec) and  *)
(* the useQueuePersistence hook (HookSpec).                                *)
(***************************************************************************)
EXTENDS Integers, Sequences, FiniteSets, TLC

VARIABLES
    width,              \* this.width
    height,             \* this.height
    particles,          \* this.particles: [count, pos, trail]; pos stands for the particles'
                        \*   positions: the number of the swarm update that set them; trail:
                        \*   the positions pushed, oldest first (all trails have one length)
    bubbles,            \* this.bubbles: sequence of [age, maxAge, popping, popProgress] with
                        \*   two history fields: slot, the bubble's index at the start of the
                        \*   last update pass, and popUpdates, the popProgress updates so far
    visited,            \* history: the slots the last bubble update pass processed, in order
    voronoiSeeds,       \* this.voronoiSeeds: the number of seeds
    time,               \* this.time
    hueBase,            \* this.hueBase
    currentPattern,     \* this.currentPattern
    nextPattern,        \* this.nextPattern
    patternTimer,       \* this.patternTimer
    transitionProgress, \* this.transitionProgress
    isTransitioning,    \* this.isTransitioning
    patternIndex,       \* this.patternIndex (0-based, as in the source)
    seedMoves,          \* number of renderVoronoi calls that moved the present seeds
    fractalUpdates,     \* number of renderFractal calls (each advances fractalZoom, rewrites juliaC)
    drawn,              \* the renderPattern calls of the last frame: <<[pattern, alpha]>>
    lastCall,           \* history: the last call on the engine and the exception it ended
                        \*   with: [op, thrown]
    audio,              \* the four intensities computed by the last render call
    dataArray,          \* the caller's frequency buffer as passed to the last render call
    sinceCommit,        \* history: number of render calls since the call that committed the
                        \*   last transition, or since construction
    sinceBegin,         \* history: number of render calls since the call that began the
                        \*   transition in progress (0 while steady before a call)
    commits,            \* history: number of committed transitions since construction
    twin,               \* a second engine instance fed the same arrays (record of the same fields)
    rendererRef,        \* FlowFieldBackground's rendererRef.current: "null" or "renderer"
    waiter,             \* electron main process: the promise of one waitForServer call and
                        \*   its closure: [pc, port, maxAttempts, attempts, probesOut,
                        \*   timersOut, result] with the history fields probes (the
                        \*   http.get calls made), failed (the probes that failed) and
                        \*   resolves (the resolve calls made)
    hook,               \* a component using useQueuePersistence: [mounted, state (the number
                        \*   of the queue state last passed in), persistTimerRef, timers
                        \*   (the pending timeouts: [id, state, due]), stored, now] with the
                        \*   history fields changedAt, writes (<<[state, at]>>) and ids
    fractalLoop         \* renderFractal's escape-time loop for one sampled pixel:
                        \*   [pc, finite, x, y, iter, maxIter, re, im]; x, y, re and im in
                        \*   thousandths, finite FALSE when x or y is NaN or an infinity

vars == <<width, height, particles, bubbles, voronoiSeeds, time, hueBase,
          currentPattern, nextPattern, patternTimer, transitionProgress,
          isTransitioning, patternIndex, fractalUpdates, drawn, audio,
          dataArray, commits, twin, visited, lastCall, fractalLoop, rendererRef,
          sinceCommit, sinceBegin, seedMoves, waiter, hook>>

\* what no call on the engine's interface reads or writes
elsewhere == << fractalLoop, waiter, hook >>

\* no pixel's loop is being followed
NoLoop ==
    [ pc |-> "idle", finite |-> TRUE, x |-> 0, y |-> 0, iter |-> 0, maxIter |-> 0,
      re |-> 0, im |-> 0 ]

\* waitForServer has not been called
NoWait ==
    [ pc |-> "idle", port |-> 0, maxAttempts |-> 0, attempts |-> 0, probesOut |-> 0,
      timersOut |-> 0, result |-> "pending", probes |-> 0, failed |-> 0, resolves |-> 0 ]

\* no component uses the hook yet; persistTimerRef = useRef(null), 0 standing for null
NoHook ==
    [ mounted |-> FALSE, state |-> 0, persistTimerRef |-> 0, timers |-> {},
      stored |-> 0, now |-> 0, changedAt |-> 0, writes |-> << >>, ids |-> 0 ]

Elsewhere == fractalLoop = NoLoop /\ waiter = NoWait /\ hook = NoHook

-----------------------------------------------------------------------------
(* Bounds of the model *)

\* longest frequency array fed to render
MaxLen == 8
\* number of render calls in a run of Spec
MaxFrames == 437
\* number of render calls in a run of AudioSpec and of EmptySpec
MaxAudioFrames == 2
\* number of render calls in a run of LongSpec
MaxLongFrames == 6600
\* TwinSpec: frames both engines have rendered before the run, and frames of the run
WarmUp == 1270
TwinFrames == 4

-----------------------------------------------------------------------------
(* Numbers *)

NaN == -1

IsNaN(x) == x = NaN

RECURSIVE Gcd(_, _)
Gcd(a, b) == IF b = 0 THEN a ELSE Gcd(b, a % b)

RECURSIVE LcmUpTo(_)
LcmUpTo(n) == IF n <= 1 THEN 1 ELSE LET l == LcmUpTo(n - 1) IN (l * n) \div Gcd(l, n)

\* the model's representation of the intensity 1.0
Unit == 128 * LcmUpTo(MaxLen)

Add(x, y) == IF IsNaN(x) \/ IsNaN(y) THEN NaN ELSE x + y
Sub(x, y) == IF IsNaN(x) \/ IsNaN(y) THEN NaN ELSE x - y
Times(k, x) == IF IsNaN(x) THEN NaN ELSE k * x
MathMin(x, y) == IF IsNaN(x) \/ IsNaN(y) THEN NaN ELSE IF x <= y THEN x ELSE y
MathMax(x, y) == IF IsNaN(x) \/ IsNaN(y) THEN NaN ELSE IF x >= y THEN x ELSE y
Greater(x, y) == ~IsNaN(x) /\ ~IsNaN(y) /\ x > y
GreaterEq(x, y) == ~IsNaN(x) /\ ~IsNaN(y) /\ x >= y
\* x % m for x >= 0, m > 0
Mod(x, m) == IF IsNaN(x) THEN NaN ELSE x % m

-----------------------------------------------------------------------------
(* Doubles: IEEE 754 binary64 values m * 2^e, m a natural number of at most *)
(* 53 bits held as a little-endian sequence of limbs (digits in base Base)  *)

Base == 1024

Pow2(k) == 2 ^ k

\* the n limbs f[1] .. f[n], as a sequence
Limbs(f, n) == SubSeq(f, 1, n)

\* without the zero limbs at the high end
BigNorm(x) ==
    CHOOSE r \in
        { SubSeq(t, 1, CHOOSE n \in 0 .. Len(t) :
                           /\ n = 0 \/ t[n] # 0
                           /\ \A j \in (n + 1) .. Len(t) : t[j] = 0) :
          t \in { x } } : TRUE

Limb(x, i) == IF 1 <= i /\ i <= Len(x) THEN x[i] ELSE 0

\* the limbs of a natural number below 2^31
BigFromInt(n) ==
    BigNorm(<< n % Base, (n \div Base) % Base, (n \div (Base * Base)) % Base,
               n \div (Base * Base * Base) >>)

\* the carry into limb i of x + y: a lower limb overflows and every limb between it
\* and limb i passes the carry on
BigAddFrom(x, y, i) ==
    \E j \in 1 .. (i - 1) :
        /\ Limb(x, j) + Limb(y, j) >= Base
        /\ \A k \in (j + 1) .. (i - 1) : Limb(x, k) + Limb(y, k) = Base - 1

BigAdd(x, y) ==
    CHOOSE r \in
        { BigNorm(Limbs([ i \in 1 .. (Len(a) + Len(b) + 1) |->
                            (Limb(a, i) + Limb(b, i)
                               + (IF BigAddFrom(a, b, i) THEN 1 ELSE 0)) % Base ],
                        Len(a) + Len(b) + 1)) :
          a \in { x }, b \in { y } } : TRUE

\* x * Base^j
BigShiftLimbs(x, j) == IF x = << >> THEN x ELSE [ i \in 1 .. j |-> 0 ] \o x

\* the limbs (x[i] * k) % Base (part 0) or (x[i] * k) \div Base (part 1) of the products
BigMulSmallFrom(x, k, part) ==
    Limbs([ i \in 1 .. Len(x) |->
              IF part = 0 THEN (x[i] * k) % Base ELSE (x[i] * k) \div Base ], Len(x))

\* x * k for 0 <= k <= Base
BigMulSmall(x, k) ==
    CHOOSE r \in
        { BigAdd(BigNorm(BigMulSmallFrom(a, k, 0)),
                 BigShiftLimbs(BigNorm(BigMulSmallFrom(a, k, 1)), 1)) :
          a \in { x } } : TRUE

\* x * 2^k
BigShiftLeft(x, k) ==
    CHOOSE r \in
        { BigShiftLimbs(BigNorm(Limbs([ i \in 1 .. (Len(a) + 1) |->
                                          (Limb(a, i) % Pow2(10 - (k % 10))) * Pow2(k % 10)
                                            + Limb(a, i - 1) \div Pow2(10 - (k % 10)) ],
                                      Len(a) + 1)),
                        k \div 10) :
          a \in { x } } : TRUE

RECURSIVE BigMulFrom(_, _, _, _)
\* x times the limbs lo .. hi of y, each in its place
BigMulFrom(x, y, lo, hi) ==
    IF hi < lo THEN << >>
    ELSE IF hi = lo THEN BigShiftLimbs(BigMulSmall(x, y[lo]), lo - 1)
    ELSE BigAdd(BigMulFrom(x, y, lo, (lo + hi) \div 2),
                BigMulFrom(x, y, (lo + hi) \div 2 + 1, hi))

BigMul(x, y) ==
    CHOOSE r \in { BigMulFrom(a, b, 1, Len(b)) : a \in { x }, b \in { y } } : TRUE

RECURSIVE BigDivSmallFrom(_, _, _, _, _)
\* quotient and remainder of the limbs lo .. hi of x, after the remainder rem of the
\* higher ones
BigDivSmallFrom(x, d, hi, lo, rem) ==
    IF hi < lo THEN [ q |-> << >>, r |-> rem ]
    ELSE IF hi = lo
    THEN [ q |-> << (rem * Base + x[hi]) \div d >>, r |-> (rem * Base + x[hi]) % d ]
    ELSE CHOOSE res \in
             { CHOOSE low \in
                   { [ q |-> lower.q \o upper.q, r |-> lower.r ] :
                     lower \in { BigDivSmallFrom(x, d, (hi + lo) \div 2, lo, upper.r) } } :
                   TRUE :
               upper \in { BigDivSmallFrom(x, d, hi, (hi + lo) \div 2 + 1, rem) } } : TRUE

\* x \div d and x % d for 0 < d < 2^20
BigDivSmall(x, d) ==
    CHOOSE r \in
        { [ q |-> BigNorm(res.q), r |-> res.r ] :
          res \in { BigDivSmallFrom(a, d, Len(a), 1, 0) : a \in { x } } } : TRUE

\* number of significant bits of a limb
BitsOf(n) == CHOOSE b \in 0 .. 10 : n < Pow2(b) /\ (b = 0 \/ n >= Pow2(b - 1))

\* number of significant bits of x
BitLength(x) == IF x = << >> THEN 0 ELSE 10 * (Len(x) - 1) + BitsOf(x[Len(x)])

\* x \div 2^k, and whether a bit of x below 2^k is set
BigShiftRight(x, k) ==
    CHOOSE r \in
        { [ q |-> BigNorm(Limbs([ i \in 1 .. Len(a) |->
                                    Limb(a, (k \div 10) + i) \div Pow2(k % 10)
                                      + (Limb(a, (k \div 10) + i + 1) % Pow2(k % 10))
                                          * Pow2(10 - (k % 10)) ],
                                Len(a))),
            sticky |-> \/ \E i \in 1 .. (k \div 10) : Limb(a, i) # 0
                       \/ Limb(a, (k \div 10) + 1) % Pow2(k % 10) # 0 ] :
          a \in { x } } : TRUE

BigIsOdd(x) == x # << >> /\ x[1] % 2 = 1

RECURSIVE BigLeqFrom(_, _, _)
BigLeqFrom(x, y, i) ==
    IF i < 1 THEN TRUE
    ELSE IF Limb(x, i) # Limb(y, i) THEN Limb(x, i) < Limb(y, i)
    ELSE BigLeqFrom(x, y, i - 1)

BigLeq(x, y) == BigLeqFrom(x, y, IF Len(x) > Len(y) THEN Len(x) ELSE Len(y))

FlZero == [ nan |-> FALSE, m |-> << >>, e |-> 0 ]
FlNaN == [ nan |-> TRUE, m |-> << >>, e |-> 0 ]

\* the number of zero bits at the low end of x # 0
BigLowZeros(x) ==
    CHOOSE k \in 0 .. (10 * Len(x)) :
        /\ Limb(x, (k \div 10) + 1) % Pow2((k % 10) + 1) # 0
        /\ Limb(x, (k \div 10) + 1) % Pow2(k % 10) = 0
        /\ \A j \in 1 .. (k \div 10) : x[j] = 0

\* m * 2^e with m odd (or zero): one representation for each value
FlNormal(m, e) ==
    CHOOSE r \in
        { IF a = << >> THEN FlZero
          ELSE CHOOSE f \in { [ nan |-> FALSE, m |-> BigShiftRight(a, k).q, e |-> e + k ] :
                               k \in { BigLowZeros(a) } } : TRUE :
          a \in { BigNorm(m) } } : TRUE

\* m * 2^e with the excess low bits of m rounded off, ties to even
FlRoundOff(m, excess, e, sticky) ==
    CHOOSE r \in
        { CHOOSE f \in
              { FlNormal(IF /\ BigIsOdd(guarded.q)
                            /\ (guarded.sticky \/ sticky \/ BigIsOdd(kept))
                         THEN BigAdd(kept, << 1 >>) ELSE kept,
                         e + excess) :
                kept \in { BigShiftRight(guarded.q, 1).q } } : TRUE :
          guarded \in { BigShiftRight(m, excess - 1) } } : TRUE

\* the double nearest to m * 2^e, ties to even; sticky: the value is a little above m * 2^e
FlRound(m, e, sticky) ==
    CHOOSE r \in
        { IF BitLength(a) <= 53 THEN FlNormal(a, e)
          ELSE CHOOSE f \in { FlRoundOff(a, excess, e, sticky) :
                               excess \in { BitLength(a) - 53 } } : TRUE :
          a \in { m } } : TRUE

\* x + y in doubles, x, y >= 0
FlAdd(x, y) ==
    IF x.nan \/ y.nan THEN FlNaN
    ELSE CHOOSE r \in
             { FlRound(BigAdd(BigShiftLeft(x.m, x.e - e), BigShiftLeft(y.m, y.e - e)),
                       e, FALSE) :
               e \in { IF x.e < y.e THEN x.e ELSE y.e } } : TRUE

\* x * y in doubles, x, y >= 0
FlMul(x, y) ==
    CHOOSE r \in
        { IF a.nan \/ b.nan THEN FlNaN ELSE FlRound(BigMul(a.m, b.m), a.e + b.e, FALSE) :
          a \in { x }, b \in { y } } : TRUE

\* a / b in doubles for natural numbers a and b > 0 below 2^20
FlDiv(a, b) ==
    CHOOSE r \in
        { FlRound(res.q, -80, res.r # 0) :
          res \in { BigDivSmall(BigShiftLeft(BigFromInt(a), 80), b) } } : TRUE

\* x <= y, x, y >= 0
FlLeq(x, y) ==
    /\ ~x.nan /\ ~y.nan
    /\ LET e == IF x.e < y.e THEN x.e ELSE y.e
       IN  BigLeq(BigShiftLeft(x.m, x.e - e), BigShiftLeft(y.m, y.e - e))

\* x < y, x, y >= 0: false if either is NaN
FlLess(x, y) == ~x.nan /\ ~y.nan /\ ~FlLeq(y, x)

\* x >= 1, x = m * 2^e as FlNormal leaves it
FlGeqOne(x) == ~x.nan /\ x.m # << >> /\ (x.e >= 0 \/ BitLength(x.m) > -x.e)

\* the double an intensity of the model stands for
Double(x) == IF IsNaN(x) THEN FlNaN ELSE FlDiv(x, Unit)

\* the literal 0.1
PointOne == FlDiv(1, 10)

-----------------------------------------------------------------------------
(* Scheduler fields *)

patternSequence ==
    << "rays", "fractal", "tunnel", "bubbles", "voronoi",
       "waves", "swarm", "mandala", "dna", "plasma" >>

\* frames before a transition
patternDuration == 600
\* transitionSpeed 0.02, in hundredths
transitionSpeed == 2

\* 1.0 as a transitionProgress, 360 as a hueBase
ProgressOne == 200 * Unit
HueFull == 360 * 10 * Unit

-----------------------------------------------------------------------------
(* Audio feature extraction *)

RECURSIVE SumRange(_, _, _)
\* sum of dataArray[i] ?? 0 for the 0-based indices lo <= i < hi
SumRange(d, lo, hi) ==
    IF lo >= hi THEN 0
    ELSE IF lo + 1 = hi THEN (IF lo + 1 <= Len(d) THEN d[lo + 1] ELSE 0)
    ELSE SumRange(d, lo, (lo + hi) \div 2) + SumRange(d, (lo + hi) \div 2, hi)

\* sum / count / 128 in doubles; a range of no samples has sum 0, and 0/0 is NaN
MeanOver128(sum, count) ==
    IF count = 0 THEN NaN ELSE (sum * Unit) \div (count * 128)

\* startRatio and endRatio in hundredths
getFrequencyBandIntensity(d, bufferLength, startRatio, endRatio) ==
    LET startIndex == (bufferLength * startRatio) \div 100
        endIndex == (bufferLength * endRatio) \div 100
        sum == SumRange(d, startIndex, endIndex)
    IN  MathMin(Unit, MeanOver128(sum, endIndex - startIndex))

\* mutant: the overall intensity not clamped to 1
AudioMetricsUnclamped(d, bufferLength) ==
    [ audioIntensity  |-> MeanOver128(SumRange(d, 0, Len(d)), bufferLength),
      bassIntensity   |-> getFrequencyBandIntensity(d, bufferLength, 0, 15),
      midIntensity    |-> getFrequencyBandIntensity(d, bufferLength, 15, 50),
      trebleIntensity |-> getFrequencyBandIntensity(d, bufferLength, 50, 100) ]

\* the four locals render computes from the array
AudioMetrics(d, bufferLength) ==
    [ audioIntensity  |-> MathMin(Unit, MeanOver128(SumRange(d, 0, Len(d)), bufferLength)),
      bassIntensity   |-> getFrequencyBandIntensity(d, bufferLength, 0, 15),
      midIntensity    |-> getFrequencyBandIntensity(d, bufferLength, 15, 50),
      trebleIntensity |-> getFrequencyBandIntensity(d, bufferLength, 50, 100) ]

-----------------------------------------------------------------------------
(* Initialization *)

\* Math.min(1200, Math.floor(width * height / 800)) particles, each with an empty trail
initializeParticles(w, h) ==
    LET area == (w * h) \div 800
    IN  [ count |-> IF area < 1200 THEN area ELSE 1200, pos |-> 0, trail |-> << >> ]

\* r: the Math.random() draw for maxAge, in hundredths (maxAge = 300 + r * 300)
createBubble(r) ==
    [ age |-> 0, maxAge |-> 300 + 3 * r, popping |-> FALSE, popProgress |-> FlZero,
      slot |-> 0, popUpdates |-> 0 ]

\* r: the draw for the count; the bubbles of one call share the draw for maxAge
initializeBubbles(r) ==
    [ i \in 1 .. (30 + (r * 20) \div 100) |-> createBubble(r) ]

\* mutant: the draw scaled by 11
initializeVoronoiSeedsWide(r) == 15 + (r * 11) \div 100

\* 15 + Math.floor(Math.random() * 10) seeds
initializeVoronoiSeeds(r) == 15 + (r * 10) \div 100

\* the engine after new FlowFieldRenderer(canvas), canvas of w x h
constructor(w, h, rb, rv) ==
    [ width |-> w, height |-> h,
      particles |-> initializeParticles(w, h),
      bubbles |-> initializeBubbles(rb),
      voronoiSeeds |-> initializeVoronoiSeeds(rv),
      time |-> 0, hueBase |-> 0,
      currentPattern |-> "rays", nextPattern |-> "fractal",
      patternTimer |-> 0, transitionProgress |-> 0,
      isTransitioning |-> FALSE, patternIndex |-> 0,
      fractalUpdates |-> 0, drawn |-> << >>, visited |-> << >>,
      lastCall |-> [ op |-> "constructor", thrown |-> "none" ],
      sinceCommit |-> 0, sinceBegin |-> 0, seedMoves |-> 0 ]

-----------------------------------------------------------------------------
(* Pattern transition system *)

\* Math.max(300, this.patternDuration - audioIntensity * 200), as an intensity
dynamicDuration(audioIntensity) ==
    MathMax(300 * Unit, Sub(patternDuration * Unit, Times(200, audioIntensity)))

\* mutant: the timer compared with >= instead of >
TimerExpiredAtDuration(timer, audioIntensity) ==
    GreaterEq(timer * Unit, dynamicDuration(audioIntensity))

\* mutant: the timer expires only while there is sound
TimerExpiredAudioGated(timer, audioIntensity) ==
    Greater(audioIntensity, 0) /\ Greater(timer * Unit, dynamicDuration(audioIntensity))

\* this.patternTimer > dynamicDuration
TimerExpired(timer, audioIntensity) ==
    Greater(timer * Unit, dynamicDuration(audioIntensity))

\* mutant: the progress step not accelerated by the audio
AdvanceProgressUnscaled(progress, audioIntensity) ==
    Add(progress, Times(transitionSpeed, 2 * Unit))

\* this.transitionProgress + this.transitionSpeed * (1 + audioIntensity * 0.5)
AdvanceProgress(progress, audioIntensity) ==
    Add(progress, Times(transitionSpeed, Add(2 * Unit, audioIntensity)))

\* this.transitionProgress >= 1
TransitionComplete(progress) == GreaterEq(progress, ProgressOne)

\* mutant: the commit takes the pattern after the next one
CommitSkipping(s) ==
    [ s EXCEPT !.transitionProgress = 0,
               !.isTransitioning = FALSE,
               !.currentPattern =
                   patternSequence[((s.patternIndex + 1) % Len(patternSequence)) + 1],
               !.patternTimer = 0 ]

\* mutant: the commit leaves transitionProgress as it is
CommitKeepingProgress(s) ==
    [ s EXCEPT !.isTransitioning = FALSE,
               !.currentPattern = s.nextPattern,
               !.patternTimer = 0 ]

\* mutant: the commit leaves the timer running
CommitTimerKept(s) ==
    [ s EXCEPT !.transitionProgress = 0,
               !.isTransitioning = FALSE,
               !.currentPattern = s.nextPattern ]

\* mutant: the commit leaves isTransitioning set
CommitStillTransitioning(s) ==
    [ s EXCEPT !.transitionProgress = 0,
               !.currentPattern = s.nextPattern,
               !.patternTimer = 0 ]

\* the transition is over: the next pattern becomes the current one
CommitTransition(s) ==
    [ s EXCEPT !.transitionProgress = 0,
               !.isTransitioning = FALSE,
               !.currentPattern = s.nextPattern,
               !.patternTimer = 0 ]

\* mutant: the index left where it is
BeginTransitionIndexKept(s) ==
    [ s EXCEPT !.isTransitioning = TRUE,
               !.transitionProgress = 0,
               !.nextPattern = patternSequence[s.patternIndex + 1] ]

\* start the transition to the next pattern of the sequence
BeginTransition(s) ==
    LET index == (s.patternIndex + 1) % Len(patternSequence) IN
    [ s EXCEPT !.isTransitioning = TRUE,
               !.transitionProgress = 0,
               !.patternIndex = index,
               !.nextPattern = patternSequence[index + 1] ]

\* mutant: the timer counted only while the scheduler is steady
updatePatternTransitionSteadyTimer(s, audioIntensity) ==
    IF s.isTransitioning
    THEN LET u == [ s EXCEPT !.transitionProgress =
                                 AdvanceProgress(s.transitionProgress, audioIntensity) ]
         IN  IF TransitionComplete(u.transitionProgress) THEN CommitTransition(u) ELSE u
    ELSE LET t == [ s EXCEPT !.patternTimer = s.patternTimer + 1 ] IN
         IF TimerExpired(t.patternTimer, audioIntensity) THEN BeginTransition(t) ELSE t

updatePatternTransition(s, audioIntensity) ==
    LET t == [ s EXCEPT !.patternTimer = s.patternTimer + 1 ] IN
    IF t.isTransitioning
    THEN LET u == [ t EXCEPT !.transitionProgress =
                                 AdvanceProgress(t.transitionProgress, audioIntensity) ]
         IN  IF TransitionComplete(u.transitionProgress) THEN CommitTransition(u) ELSE u
    ELSE IF TimerExpired(t.patternTimer, audioIntensity) THEN BeginTransition(t) ELSE t

-----------------------------------------------------------------------------
(* Pattern renderers: what each does to the engine's state *)

\* fractalZoom += a strictly positive step, juliaC rewritten
renderFractal(s) == [ s EXCEPT !.fractalUpdates = s.fractalUpdates + 1 ]

\* mutant: the deletion one position too high
SpliceAbove(bs, i) ==
    LET at == IF i < Len(bs) THEN i + 1 ELSE i
    IN  [ j \in 1 .. (Len(bs) - 1) |-> IF j < at THEN bs[j] ELSE bs[j + 1] ]

\* this.bubbles.splice(i, 1), i 1-based
Splice(bs, i) == [ j \in 1 .. (Len(bs) - 1) |-> IF j < i THEN bs[j] ELSE bs[j + 1] ]

\* this.bubbles.push(bubble)
Push(bs, bubble) == [ i \in 1 .. (Len(bs) + 1) |-> IF i <= Len(bs) THEN bs[i] ELSE bubble ]

\* 0.1 + trebleIntensity * 0.1, in doubles
PopStep(trebleIntensity) ==
    CHOOSE step \in
        { FlAdd(PointOne, scaled) : scaled \in { FlMul(Double(trebleIntensity), PointOne) } } :
        TRUE

\* one run of the loop body for the bubble at index i: the pool after it
BubbleBody(bs, i, bubble, trebleIntensity, step, env) ==
    IF bubble.popping
    THEN CHOOSE next \in
             { IF FlGeqOne(popProgress)
               THEN Splice(bs, i)
               ELSE [ bs EXCEPT ![i] = [ bubble EXCEPT !.popProgress = popProgress,
                                                       !.popUpdates = bubble.popUpdates + 1 ] ] :
               popProgress \in { FlAdd(bubble.popProgress, step) } } : TRUE
    ELSE LET age == bubble.age + 1
             pop == \/ age > bubble.maxAge
                    \/ bubble.slot \in env.esc
                    \/ (Greater(10 * trebleIntensity, 7 * Unit) /\ bubble.slot \in env.pops)
         IN  [ bs EXCEPT ![i] = [ bubble EXCEPT !.age = age, !.popping = pop ] ]

RECURSIVE BubbleLoop(_, _, _, _, _, _)
\* for (let i = this.bubbles.length - 1; i >= 0; i--), i 1-based here: the iterations
\* for i = hi down to lo, on p = [bubbles, visited], visited being the slots of the
\* bubbles the loop body has run for so far; step: 0.1 + trebleIntensity * 0.1.  The
\* iterations of the upper half of the indices are evaluated before those of the lower.
BubbleLoop(p, hi, lo, trebleIntensity, step, env) ==
    IF hi < lo THEN p
    ELSE IF hi = lo
    THEN [ bubbles |-> BubbleBody(p.bubbles, hi, p.bubbles[hi], trebleIntensity, step, env),
           visited |-> Append(p.visited, p.bubbles[hi].slot) ]
    ELSE CHOOSE pass \in
             { BubbleLoop(upper, (hi + lo) \div 2, lo, trebleIntensity, step, env) :
               upper \in { BubbleLoop(p, hi, (hi + lo) \div 2 + 1,
                                      trebleIntensity, step, env) } } : TRUE

\* the pool as the pass finds it: every bubble is given its index as its slot
Slotted(bs) == [ i \in 1 .. Len(bs) |-> [ bs[i] EXCEPT !.slot = i ] ]

\* the update pass over the pool found as spawned, from index from down
BubblePassOver(s, spawned, from, trebleIntensity, env) ==
    CHOOSE n \in
        { [ s EXCEPT !.bubbles = pass.bubbles, !.visited = pass.visited ] :
          pass \in { BubbleLoop([ bubbles |-> pool, visited |-> << >> ], from, 1,
                                trebleIntensity, step, env) :
                     pool \in { Slotted(spawned) },
                     step \in { PopStep(trebleIntensity) } } } : TRUE

\* mutant: the loop runs over the length the pool had before the spawn
renderBubblesStaleLength(s, bassIntensity, trebleIntensity, env) ==
    IF Greater(2 * bassIntensity, Unit) /\ env.spawn > 80
    THEN BubblePassOver(s, Push(s.bubbles, createBubble(env.maxAge)), Len(s.bubbles),
                        trebleIntensity, env)
    ELSE BubblePassOver(s, s.bubbles, Len(s.bubbles), trebleIntensity, env)

\* mutant: a bubble is spawned whatever the bass
renderBubblesAnyBass(s, bassIntensity, trebleIntensity, env) ==
    IF env.spawn > 80
    THEN BubblePassOver(s, Push(s.bubbles, createBubble(env.maxAge)), Len(s.bubbles) + 1,
                        trebleIntensity, env)
    ELSE BubblePassOver(s, s.bubbles, Len(s.bubbles), trebleIntensity, env)

\* env.spawn, env.maxAge: Math.random() draws in hundredths; env.esc: the bubbles (slots)
\* whose position leaves the surface in this frame; env.pops: those whose pop draw
\* exceeds 0.95
renderBubbles(s, bassIntensity, trebleIntensity, env) ==
    IF Greater(2 * bassIntensity, Unit) /\ env.spawn > 80
    THEN BubblePassOver(s, Push(s.bubbles, createBubble(env.maxAge)), Len(s.bubbles) + 1,
                        trebleIntensity, env)
    ELSE BubblePassOver(s, s.bubbles, Len(s.bubbles), trebleIntensity, env)

\* seeds are moved and recoloured in place: their number does not change
renderVoronoi(s) == [ s EXCEPT !.seedMoves = s.seedMoves + 1 ]

\* mutant: the newest entry is dropped when the trail is full
TrailPushNewestDropped(trail, pos) ==
    IF Len(trail) + 1 > 20 THEN trail ELSE Append(trail, pos)

\* particle.trail.push({ x, y, alpha }); if (particle.trail.length > 20) particle.trail.shift()
TrailPush(trail, pos) ==
    IF Len(trail) + 1 > 20 THEN Tail(Append(trail, pos)) ELSE Append(trail, pos)

\* every particle is moved (particle.x += particle.vx, ..., wrapped) and its new
\* position is pushed onto its trail
renderSwarm(s) ==
    IF s.particles.count = 0 THEN s
    ELSE [ s EXCEPT !.particles =
               [ count |-> s.particles.count,
                 pos   |-> s.particles.pos + 1,
                 trail |-> TrailPush(s.particles.trail, s.particles.pos + 1) ] ]

\* mutant: every other renderer moves the particles as well
renderPatternSharedParticles(s, pattern, m, env) ==
    CASE pattern = "fractal" -> renderFractal(s)
      [] pattern = "bubbles" -> renderBubbles(s, m.bassIntensity, m.trebleIntensity, env)
      [] pattern = "voronoi" -> renderVoronoi(s)
      [] OTHER               -> renderSwarm(s)

renderPattern(s, pattern, m, env) ==
    CASE pattern = "fractal" -> renderFractal(s)
      [] pattern = "bubbles" -> renderBubbles(s, m.bassIntensity, m.trebleIntensity, env)
      [] pattern = "voronoi" -> renderVoronoi(s)
      [] pattern = "swarm"   -> renderSwarm(s)
      [] OTHER               -> s

-----------------------------------------------------------------------------
(* Main render method and resize *)

\* ctx.createImageData(this.width, this.height), the first statement of renderFractal,
\* renderVoronoi and renderPlasma, throws IndexSizeError for a width or height of 0
ImageDataPatterns == { "fractal", "voronoi", "plasma" }

CreateImageDataThrows(s, pattern) ==
    pattern \in ImageDataPatterns /\ (s.width = 0 \/ s.height = 0)

Returned(s, calls) ==
    [ s EXCEPT !.drawn = calls, !.lastCall = [ op |-> "render", thrown |-> "none" ] ]

Thrown(s, calls) ==
    [ s EXCEPT !.drawn = calls,
               !.lastCall = [ op |-> "render", thrown |-> "IndexSizeError" ] ]

\* the frame's renderPattern calls, after the scheduler has been updated; an exception
\* ends the frame at the call that throws it
RenderFrame(s, m, env) ==
    IF s.isTransitioning
    THEN LET out == [ pattern |-> s.currentPattern,
                      alpha |-> Sub(ProgressOne, s.transitionProgress) ]
             in  == [ pattern |-> s.nextPattern, alpha |-> s.transitionProgress ]
         IN  IF CreateImageDataThrows(s, s.currentPattern) THEN Thrown(s, << out >>)
             ELSE CHOOSE n \in
                      { IF CreateImageDataThrows(s1, s.nextPattern)
                        THEN Thrown(s1, << out, in >>)
                        ELSE Returned(renderPattern(s1, s.nextPattern, m, env), << out, in >>) :
                        s1 \in { renderPattern(s, s.currentPattern, m, env) } } : TRUE
    ELSE LET call == [ pattern |-> s.currentPattern, alpha |-> ProgressOne ]
         IN  IF CreateImageDataThrows(s, s.currentPattern) THEN Thrown(s, << call >>)
             ELSE Returned(renderPattern(s, s.currentPattern, m, env), << call >>)

\* this.time += 1; this.hueBase = (this.hueBase + 0.3 + bassIntensity * 1.5) % 360
UpdateGlobals(s, m) ==
    [ s EXCEPT !.time = s.time + 1,
               !.hueBase = Mod(Add(s.hueBase, Add(3 * Unit, Times(15, m.bassIntensity))),
                               HueFull) ]

\* mutant: the pattern a transition leads to is drawn at random
renderRandomNext(s, d, bufferLength, env) ==
    LET m == AudioMetrics(d, bufferLength)
        u == updatePatternTransition(UpdateGlobals(s, m), m.audioIntensity)
        v == IF u.isTransitioning /\ ~s.isTransitioning
             THEN [ u EXCEPT !.patternIndex = env.spawn % Len(patternSequence),
                             !.nextPattern =
                                 patternSequence[(env.spawn % Len(patternSequence)) + 1] ]
             ELSE u
    IN  RenderFrame(v, m, env)

\* render once the four intensities m are computed
RenderWith(s, m, env) ==
    CHOOSE n \in
        { [ f EXCEPT !.sinceCommit =
                IF s.isTransitioning /\ ~f.isTransitioning THEN 0 ELSE s.sinceCommit + 1,
                    !.sinceBegin = IF s.isTransitioning THEN s.sinceBegin + 1 ELSE 0 ] :
          f \in { RenderFrame(u, m, env) :
                  u \in { updatePatternTransition(UpdateGlobals(s, m), m.audioIntensity) } } } :
        TRUE

render(s, d, bufferLength, env) ==
    CHOOSE n \in { RenderWith(s, m, env) : m \in { AudioMetrics(d, bufferLength) } } : TRUE

\* mutant: the scheduler starts over
resizeRestartsScheduler(s, w, h, rb, rv) ==
    [ s EXCEPT !.width = w, !.height = h,
               !.particles = initializeParticles(w, h),
               !.bubbles = initializeBubbles(rb),
               !.voronoiSeeds = initializeVoronoiSeeds(rv),
               !.patternTimer = 0, !.isTransitioning = FALSE, !.transitionProgress = 0,
               !.lastCall = [ op |-> "resize", thrown |-> "none" ] ]

resize(s, w, h, rb, rv) ==
    [ s EXCEPT !.width = w, !.height = h,
               !.particles = initializeParticles(w, h),
               !.bubbles = initializeBubbles(rb),
               !.voronoiSeeds = initializeVoronoiSeeds(rv),
               !.seedMoves = 0,
               !.lastCall = [ op |-> "resize", thrown |-> "none" ] ]

-----------------------------------------------------------------------------
(* The engine instance as a record, and the steps of the program *)

This ==
    [ width |-> width, height |-> height, particles |-> particles,
      bubbles |-> bubbles, voronoiSeeds |-> voronoiSeeds,
      time |-> time, hueBase |-> hueBase,
      currentPattern |-> currentPattern, nextPattern |-> nextPattern,
      patternTimer |-> patternTimer, transitionProgress |-> transitionProgress,
      isTransitioning |-> isTransitioning, patternIndex |-> patternIndex,
      fractalUpdates |-> fractalUpdates, drawn |-> drawn, visited |-> visited,
      lastCall |-> lastCall, sinceCommit |-> sinceCommit, sinceBegin |-> sinceBegin,
      seedMoves |-> seedMoves ]

Becomes(n) ==
    /\ width' = n.width /\ height' = n.height
    /\ particles' = n.particles /\ bubbles' = n.bubbles
    /\ voronoiSeeds' = n.voronoiSeeds
    /\ time' = n.time /\ hueBase' = n.hueBase
    /\ currentPattern' = n.currentPattern /\ nextPattern' = n.nextPattern
    /\ patternTimer' = n.patternTimer /\ transitionProgress' = n.transitionProgress
    /\ isTransitioning' = n.isTransitioning /\ patternIndex' = n.patternIndex
    /\ fractalUpdates' = n.fractalUpdates /\ drawn' = n.drawn
    /\ visited' = n.visited /\ lastCall' = n.lastCall
    /\ sinceCommit' = n.sinceCommit /\ sinceBegin' = n.sinceBegin
    /\ seedMoves' = n.seedMoves
    /\ UNCHANGED elsewhere

\* a commit is the step of a transitioning engine that leaves it steady
Committed(s, n) == IF s.isTransitioning /\ ~n.isTransitioning THEN 1 ELSE 0

\* analyser.getByteFrequencyData(dataArray); renderer.render(dataArray, dataArray.length)
RenderThis(d, env) ==
    \E n \in { render(This, d, Len(d), env) } :
    /\ Becomes(n)
    /\ audio' = AudioMetrics(d, Len(d))
    /\ dataArray' = d
    /\ commits' = commits + Committed(This, n)
    /\ UNCHANGED rendererRef

\* one engine on the page
Render(d, env) == RenderThis(d, env) /\ UNCHANGED twin

\* two engines fed by the same analyser, each with its own draws
RenderBoth(d, env, envTwin) ==
    RenderThis(d, env) /\ twin' = render(twin, d, Len(d), envTwin)

\* window "resize": renderer.resize(window.innerWidth, window.innerHeight)
Resize(w, h, rb, rv) ==
    /\ Becomes(resize(This, w, h, rb, rv))
    /\ UNCHANGED << audio, dataArray, commits, twin, rendererRef >>

-----------------------------------------------------------------------------
(* Inputs *)

\* an array of n samples: level b in the bass band, m in the mid band, t in the treble band
Band(n, b, m, t) ==
    [ i \in 1 .. n |->
        IF i - 1 < (n * 15) \div 100 THEN b
        ELSE IF i - 1 < (n * 50) \div 100 THEN m ELSE t ]

\* silence, and full scale everywhere above the bass band
SchedArrays == { Band(MaxLen, 0, 0, 0), Band(MaxLen, 0, 255, 255) }

\* canvas sizes: one particle, the cap of 1200 particles
Sizes == { << 40, 30 >>, << 1600, 900 >> }

\* Math.random() draws, in hundredths
Draws == { 0, 99 }

\* a frame in which no bubble leaves the surface and no draw spawns or pops one
Calm == [ spawn |-> 0, maxAge |-> 0, esc |-> {}, pops |-> {} ]

NoAudio == [ audioIntensity |-> 0, bassIntensity |-> 0, midIntensity |-> 0, trebleIntensity |-> 0 ]

-----------------------------------------------------------------------------
(* Spec: a freshly constructed engine, rendered and resized in any order *)

\* the engine is in state n, before any frame
Starts(n) ==
    /\ width = n.width /\ height = n.height
    /\ particles = n.particles /\ bubbles = n.bubbles
    /\ voronoiSeeds = n.voronoiSeeds
    /\ time = n.time /\ hueBase = n.hueBase
    /\ currentPattern = n.currentPattern /\ nextPattern = n.nextPattern
    /\ patternTimer = n.patternTimer /\ transitionProgress = n.transitionProgress
    /\ isTransitioning = n.isTransitioning /\ patternIndex = n.patternIndex
    /\ fractalUpdates = n.fractalUpdates /\ drawn = n.drawn
    /\ visited = n.visited /\ lastCall = n.lastCall
    /\ sinceCommit = n.sinceCommit /\ sinceBegin = n.sinceBegin
    /\ seedMoves = n.seedMoves
    /\ rendererRef = "renderer"
    /\ Elsewhere

Init ==
    \E size \in Sizes, r \in Draws :
        /\ Starts(constructor(size[1], size[2], r, r))
        /\ audio = NoAudio
        /\ dataArray = << >>
        /\ commits = 0
        /\ twin = constructor(0, 0, 0, 0)

Animate ==
    /\ time < MaxFrames
    /\ \E d \in SchedArrays : Render(d, Calm)

WindowResize ==
    \E size \in Sizes, r \in Draws : Resize(size[1], size[2], r, r)

Next == Animate \/ WindowResize

Spec == Init /\ [][Next]_vars

-----------------------------------------------------------------------------
(* Properties of the pattern scheduler, checked under Spec *)

\* a step of the engine that is a render call
RenderCall == time' = time + 1

\* max(300, patternDuration - 200 * a) for a defined intensity a, as an intensity
DurationFor(a) ==
    IF patternDuration * Unit - 200 * a > 300 * Unit
    THEN patternDuration * Unit - 200 * a
    ELSE 300 * Unit

\* C1: in a render call made while steady, a transition begins exactly when the
\* incremented patternTimer is strictly greater than max(300, patternDuration -
\* 200 * overallIntensity); beginning advances patternIndex by one modulo 10, sets
\* nextPattern to patternSequence[patternIndex], isTransitioning to true and
\* transitionProgress to 0 and leaves currentPattern; otherwise currentPattern,
\* nextPattern, patternIndex, isTransitioning and transitionProgress are unchanged.
C1_BeginRule ==
    [][ (RenderCall /\ ~isTransitioning) =>
          LET begins == (patternTimer + 1) * Unit > DurationFor(audio'.audioIntensity) IN
          /\ begins =>
                /\ patternIndex' = (patternIndex + 1) % 10
                /\ nextPattern' = patternSequence[patternIndex' + 1]
                /\ isTransitioning' = TRUE
                /\ transitionProgress' = 0
                /\ currentPattern' = currentPattern
          /\ ~begins =>
                UNCHANGED << currentPattern, nextPattern, patternIndex,
                             isTransitioning, transitionProgress >> ]_vars

\* a transition has just begun, in the first frame whose timer exceeds 400 under full scale
C1_Witness ==
    isTransitioning /\ transitionProgress = 0 /\ patternTimer = 401 /\ patternIndex = 1

\* C2: in a render call made while transitioning, transitionProgress grows by
\* transitionSpeed * (1 + 0.5 * overallIntensity); a new value >= 1 commits in that
\* call (currentPattern becomes nextPattern, transitionProgress 0, patternTimer 0,
\* isTransitioning false), a new value < 1 leaves currentPattern, nextPattern and
\* isTransitioning; patternIndex never changes in such a call.
C2_CommitRule ==
    [][ (RenderCall /\ isTransitioning) =>
          LET grown == transitionProgress
                         + transitionSpeed * (2 * Unit + audio'.audioIntensity) IN
          /\ grown >= ProgressOne =>
                /\ currentPattern' = nextPattern
                /\ transitionProgress' = 0
                /\ patternTimer' = 0
                /\ isTransitioning' = FALSE
          /\ grown < ProgressOne =>
                /\ transitionProgress' = grown
                /\ UNCHANGED << currentPattern, nextPattern, isTransitioning >>
          /\ patternIndex' = patternIndex ]_vars

\* the first transition has committed
C2_Witness ==
    commits = 1 /\ ~isTransitioning /\ currentPattern = "fractal" /\ patternTimer = 0

\* C3 as stated: a render call made while transitioning does not increment
\* patternTimer (it leaves it unchanged or, on commit, resets it to 0).
C3_TimerFrozenWhileTransitioning ==
    [][ (RenderCall /\ isTransitioning) =>
          (patternTimer' = patternTimer \/ patternTimer' = 0) ]_vars

\* C3 amended: every render call increments patternTimer, transitioning or not,
\* except the call that commits a transition, which resets it to 0.
C3_TimerCountsEveryFrame ==
    [][ RenderCall =>
          IF isTransitioning /\ ~isTransitioning'
          THEN patternTimer' = 0
          ELSE patternTimer' = patternTimer + 1 ]_vars

\* the timer has advanced during a transition that began at 401
C3_Witness ==
    isTransitioning /\ transitionProgress > 0 /\ patternTimer > 410

\* C4: transitionProgress is in [0,1] in every state between calls.
C4_ProgressInUnitInterval ==
    ~IsNaN(transitionProgress) /\ 0 <= transitionProgress /\ transitionProgress <= ProgressOne

\* a transition one step short of its commit
C4_Witness ==
    isTransitioning /\ 100 * (transitionProgress \div Unit) >= 99 * 200

\* C5: isTransitioning is false exactly when transitionProgress is 0 and no
\* transition is pending commit (the current pattern is the one patternIndex names).
C5_SteadyIffNothingPending ==
    (~isTransitioning) <=>
        (transitionProgress = 0 /\ currentPattern = patternSequence[patternIndex + 1])

\* a transition pending commit whose progress is still 0
C5_Witness ==
    isTransitioning /\ transitionProgress = 0 /\ currentPattern # patternSequence[patternIndex + 1]

-----------------------------------------------------------------------------
(* AudioSpec, EmptySpec: a fresh engine fed arbitrary arrays for a few frames *)

\* sample values: silence, below the clamp, full scale
Levels == { 0, 100, 255 }

\* the arrays of n samples that are constant on each band
BandArrays(n) == { Band(n, b, m, t) : b \in Levels, m \in Levels, t \in Levels }

\* every array of 1 .. MaxLen samples
AudioArrays == UNION { BandArrays(n) : n \in 1 .. MaxLen }

AudioAnimate ==
    /\ time < MaxAudioFrames
    /\ \E d \in AudioArrays : Render(d, Calm)

AudioNext == AudioAnimate

AudioSpec == Init /\ [][AudioNext]_vars

\* the arrays an analyser of any size delivers, the empty one included
EmptyAnimate ==
    /\ time < MaxAudioFrames
    /\ \E d \in AudioArrays \cup { << >> } : Render(d, Calm)

EmptyNext == EmptyAnimate

EmptySpec == Init /\ [][EmptyNext]_vars

-----------------------------------------------------------------------------
(* Properties of the audio feature extraction *)

\* x is a number of [0, 1]
InUnitInterval(x) == ~IsNaN(x) /\ 0 <= x /\ x <= Unit

\* the band [lo, hi) (hundredths) of an array of n samples holds no sample
BandEmpty(n, lo, hi) == (n * lo) \div 100 = (n * hi) \div 100

\* C8: hueBase is in [0, 360) after any number of render calls, each with an array
\* of N >= 1 samples in 0..255.
C8_HueBaseInRange ==
    ~IsNaN(hueBase) /\ 0 <= hueBase /\ hueBase < HueFull

\* C9: for every array of N >= 1 samples in 0..255, overallIntensity and the bass,
\* mid and treble intensities computed by render are all in [0, 1].
C9_IntensitiesInUnitInterval ==
    time > 0 =>
        /\ InUnitInterval(audio.audioIntensity)
        /\ InUnitInterval(audio.bassIntensity)
        /\ InUnitInterval(audio.midIntensity)
        /\ InUnitInterval(audio.trebleIntensity)

\* C10: a band that holds no sample yields intensity 0, so no intensity and no state
\* derived from one (hueBase, the scheduler's numbers) is ever NaN.
C10_EmptyBandYieldsZero ==
    time > 0 =>
        LET n == Len(dataArray) IN
        /\ BandEmpty(n, 0, 15) => audio.bassIntensity = 0
        /\ BandEmpty(n, 15, 50) => audio.midIntensity = 0
        /\ BandEmpty(n, 50, 100) => audio.trebleIntensity = 0
        /\ ~IsNaN(audio.audioIntensity) /\ ~IsNaN(audio.bassIntensity)
        /\ ~IsNaN(audio.midIntensity) /\ ~IsNaN(audio.trebleIntensity)
        /\ ~IsNaN(hueBase) /\ ~IsNaN(transitionProgress)

\* what does hold: with at least 7 samples every band holds a sample, and the
\* intensities and hueBase are in range
FullBandsAreInRange ==
    (time > 0 /\ Len(dataArray) >= 7) =>
        /\ InUnitInterval(audio.audioIntensity)
        /\ InUnitInterval(audio.bassIntensity)
        /\ InUnitInterval(audio.midIntensity)
        /\ InUnitInterval(audio.trebleIntensity)

-----------------------------------------------------------------------------
(* LongSpec: a fresh engine fed one and the same array on every frame *)

\* silence, half scale and full scale on every sample
LongArrays == { Band(MaxLen, v, v, v) : v \in { 0, 64, 255 } }

LongInit ==
    \E size \in Sizes, r \in Draws, d \in LongArrays :
        /\ Starts(constructor(size[1], size[2], r, r))
        /\ audio = NoAudio
        /\ dataArray = d
        /\ commits = 0
        /\ twin = constructor(0, 0, 0, 0)

\* the analyser delivers what it delivered before
LongAnimate ==
    /\ time < MaxLongFrames
    /\ Render(dataArray, Calm)

LongNext == LongAnimate

LongSpec == LongInit /\ [][LongNext]_vars

\* C6: every committed transition moves currentPattern to its immediate successor in
\* patternSequence, so after k committed transitions of a freshly constructed engine
\* currentPattern is patternSequence[k mod 10], and after 10 it is the original one.
C6_PatternCycle ==
    currentPattern = patternSequence[(commits % 10) + 1]

\* ten transitions have committed and the first pattern is current again
C6_Witness ==
    commits = 10 /\ currentPattern = "rays" /\ patternIndex = 0

-----------------------------------------------------------------------------
(* TwinSpec: two engines, each with its own canvas and its own random draws, *)
(* fed the same arrays; the run starts WarmUp frames of full scale after     *)
(* their construction, as the third transition (to bubbles) is about to begin*)

FullScale == Band(MaxLen, 255, 255, 255)

\* an engine and its count of commits, one frame of the array d later
Frame(e, d) ==
    CHOOSE f \in
        { [ engine |-> n, commits |-> e.commits + Committed(e.engine, n) ] :
          n \in { render(e.engine, d, Len(d), Calm) } } : TRUE

RECURSIVE After(_, _, _)
\* an engine and its count of commits, k frames of the array d later (the first half
\* of the frames is evaluated before the second half is entered)
After(e, d, k) ==
    IF k <= 1 THEN (IF k = 0 THEN e ELSE Frame(e, d))
    ELSE CHOOSE a \in { After(half, d, k - k \div 2) : half \in { After(e, d, k \div 2) } } :
             TRUE

\* the engine constructed on a w x h canvas, and no commit yet
Fresh(w, h, r) == [ engine |-> constructor(w, h, r, r), commits |-> 0 ]

TwinInit ==
    \E r \in Draws, rTwin \in Draws :
        \E a \in { After(Fresh(40, 30, r), FullScale, WarmUp) },
           b \in { After(Fresh(1600, 900, rTwin), FullScale, WarmUp) } :
            /\ Starts(a.engine)
            /\ audio = AudioMetrics(FullScale, Len(FullScale))
            /\ dataArray = FullScale
            /\ commits = a.commits
            /\ twin = b.engine

\* a frame of draws that spawn a bubble, move the first one off the surface and pop the second
Stormy == [ spawn |-> 99, maxAge |-> 50, esc |-> { 1 }, pops |-> { 2 } ]

TwinAnimate ==
    /\ time < WarmUp + TwinFrames
    /\ \E d \in { Band(MaxLen, 0, 0, 0), FullScale },
          env \in { Calm, Stormy }, envTwin \in { Calm, Stormy } :
           RenderBoth(d, env, envTwin)

TwinNext == TwinAnimate

TwinSpec == TwinInit /\ [][TwinNext]_vars

\* the scheduler's fields of an engine
SchedulerOf(s) ==
    << s.currentPattern, s.nextPattern, s.patternIndex, s.patternTimer,
       s.isTransitioning, s.transitionProgress >>

\* C7: two engines that receive the same sequence of arrays have the same
\* currentPattern, nextPattern, patternIndex, patternTimer, isTransitioning and
\* transitionProgress after every frame, whatever their random draws.
C7_SchedulerDeterministic ==
    SchedulerOf(This) = SchedulerOf(twin)

\* two pools of 30 bubbles at construction: during the transition to bubbles a draw
\* has spawned a bubble in one engine and not in the other
C7_Witness ==
    /\ isTransitioning /\ nextPattern = "bubbles" /\ transitionProgress > 0
    /\ Len(bubbles) = 31 /\ Len(twin.bubbles) = 30

-----------------------------------------------------------------------------
(* Scenarios of constant feeds, checked under LongSpec *)

Silence == Band(MaxLen, 0, 0, 0)

AllOne == [ audioIntensity |-> Unit, bassIntensity |-> Unit,
            midIntensity |-> Unit, trebleIntensity |-> Unit ]

\* C11 as stated: an all-255 array on every frame saturates the four intensities at 1
\* and clamps dynamicDuration to its floor of 300, so a transition begins in the frame
\* where patternTimer first exceeds 300.
C11_FullScaleClampsToFloor ==
    (dataArray = FullScale /\ time > 0) =>
        /\ audio = AllOne
        /\ dynamicDuration(audio.audioIntensity) = 300 * Unit
        /\ ~isTransitioning => patternTimer <= 300
        /\ (isTransitioning /\ transitionProgress = 0) => patternTimer = 301

\* C11 amended: an all-255 array on every frame saturates the four intensities at 1
\* and makes dynamicDuration max(300, 600 - 200) = 400, above its floor of 300, so a
\* transition begins in the frame where patternTimer first exceeds 400.
C11_FullScaleBeginsPast400 ==
    (dataArray = FullScale /\ time > 0) =>
        /\ audio = AllOne
        /\ dynamicDuration(audio.audioIntensity) = 400 * Unit
        /\ ~isTransitioning => patternTimer <= 400
        /\ (isTransitioning /\ transitionProgress = 0) => patternTimer = 401

\* in steady state under full scale (a transition has committed), the next one begins
C11_Witness ==
    /\ dataArray = FullScale /\ commits = 2
    /\ isTransitioning /\ transitionProgress = 0 /\ patternTimer = 401

\* C12: an all-zero array for 1,000 consecutive frames to a fresh engine keeps the four
\* intensities at 0 in every frame; a transition begins once patternTimer exceeds
\* patternDuration (600) and commits, so that after the 1,000 frames currentPattern has
\* advanced along the cycle at least once.
C12_SilenceAdvancesOnSchedule ==
    (dataArray = Silence /\ 0 < time /\ time <= 1000) =>
        /\ audio = NoAudio
        /\ (~isTransitioning /\ commits = 0) => patternTimer <= patternDuration
        /\ (isTransitioning /\ transitionProgress = 0) => patternTimer = patternDuration + 1
        /\ time = 1000 =>
              /\ commits >= 1
              /\ currentPattern = patternSequence[(commits % 10) + 1]
              /\ currentPattern # "rays"

\* the thousandth frame of silence: the first transition has committed
C12_Witness ==
    dataArray = Silence /\ time = 1000 /\ commits = 1 /\ currentPattern = "fractal"

-----------------------------------------------------------------------------
(* BubbleSpec: one engine from the frame in which the transition to bubbles *)
(* begins (WarmUp frames of full scale after construction), fed silence or  *)
(* full scale, with any draws, for a few frames                             *)

\* number of render calls in a run of BubbleSpec
BubbleFrames == 6

\* the engine WarmUp frames of full scale after its construction on a 40 x 30 canvas
Warm(r) == After(Fresh(40, 30, r), FullScale, WarmUp)

BubbleInit ==
    \E r \in Draws :
        \E a \in { Warm(r) } :
            /\ Starts(a.engine)
            /\ audio = AudioMetrics(FullScale, Len(FullScale))
            /\ dataArray = FullScale
            /\ commits = a.commits
            /\ twin = constructor(0, 0, 0, 0)

BubbleAnimate ==
    /\ time < WarmUp + BubbleFrames
    /\ \E d \in { Silence, FullScale, << >> }, env \in { Calm, Stormy } : Render(d, env)

BubbleNext == BubbleAnimate

BubbleSpec == BubbleInit /\ [][BubbleNext]_vars

-----------------------------------------------------------------------------
(* Properties of the bubble pool *)

\* a render call that draws the bubbles pattern, and so runs one bubble update pass
BubblePass == RenderCall /\ \E k \in DOMAIN drawn' : drawn'[k].pattern = "bubbles"

\* the positions in the pool after the step of the bubble that had slot i in the pass
Survives(i) == { j \in DOMAIN bubbles' : bubbles'[j].slot = i }

\* C13: across render calls the particle count and the Voronoi seed count never
\* change; the bubble pool grows by at most one bubble per render call, and only in a
\* frame whose bassIntensity exceeds 0.5; with an all-zero array it never grows.
C13_PoolsDoNotGrowUnboundedly ==
    [][ RenderCall =>
          /\ particles'.count = particles.count
          /\ voronoiSeeds' = voronoiSeeds
          /\ Len(bubbles') <= Len(bubbles) + 1
          /\ Len(bubbles') > Len(bubbles) =>
                (~IsNaN(audio'.bassIntensity) /\ 2 * audio'.bassIntensity > Unit)
          /\ dataArray' = Silence => Len(bubbles') <= Len(bubbles) ]_vars

\* two bubbles have been spawned into a pool of 30, the second under full-scale bass
C13_Witness ==
    Len(bubbles) = 32 /\ audio.bassIntensity = Unit /\ Len(visited) = 32

\* C15: the lifecycle is one-way, Rising -> Popping -> removed: a render call never
\* clears a set popping flag, never removes a bubble that is Rising, never decreases
\* popProgress (a popProgress that has become NaN is not smaller than the one before
\* it), leaves the age of a Popping bubble as it is, and popProgress is 0 for every
\* Rising bubble; a render call that does not draw bubbles leaves the pool as it is.
C15_LifecycleOneWay ==
    [][ RenderCall =>
          /\ BubblePass =>
                /\ \A i \in DOMAIN bubbles :
                      /\ ~bubbles[i].popping => Survives(i) # {}
                      /\ \A j \in Survives(i) :
                            /\ bubbles[i].popping =>
                                  (bubbles'[j].popping /\ bubbles'[j].age = bubbles[i].age)
                            /\ ~FlLess(bubbles'[j].popProgress, bubbles[i].popProgress)
          /\ ~BubblePass => bubbles' = bubbles
          /\ \A j \in DOMAIN bubbles' :
                ~bubbles'[j].popping => bubbles'[j].popProgress = FlZero ]_vars

\* the last pass has removed the Popping bubbles, and the Rising ones, older by that
\* pass, are all still in the pool
C15_Witness ==
    /\ Len(visited) > Len(bubbles)
    /\ Len(bubbles) >= 28
    /\ \A j \in DOMAIN bubbles : ~bubbles[j].popping /\ bubbles[j].age > 0

\* C17: in one bubble update pass every bubble that is in the pool when the loop starts,
\* the one spawned at the start of the pass included, is processed exactly once, also
\* when popped bubbles are deleted in place during the pass.
C17_EveryBubbleVisitedOnce ==
    [][ BubblePass =>
          /\ \A i \in DOMAIN bubbles :
                Cardinality({ k \in DOMAIN visited' : visited'[k] = i }) = 1
          /\ \A j \in DOMAIN bubbles' :
                Cardinality({ k \in DOMAIN visited' : visited'[k] = bubbles'[j].slot }) = 1
          /\ \A k \in DOMAIN visited' :
                Cardinality({ l \in DOMAIN visited' : visited'[l] = visited'[k] }) = 1 ]_vars

\* the last pass processed a bubble spawned at its start (now of age 1, in the last
\* slot) and deleted a bubble from the middle of the pool
C17_Witness ==
    /\ Len(visited) > Len(bubbles)
    /\ \E j \in DOMAIN bubbles : bubbles[j].age = 1 /\ bubbles[j].slot = Len(visited)

-----------------------------------------------------------------------------
(* LifeSpec: the engine of BubbleSpec followed through whole pattern cycles: *)
(* any array and any draws in the first frames, then the last array on every *)
(* frame and calm draws.  LifeLiveSpec: the animation loop never stops.      *)

\* frames of free arrays and draws, and number of render calls, in a run of LifeSpec
LifeStormFrames == 1
LifeFrames == 4500

LifeStorm ==
    /\ time < WarmUp + LifeStormFrames
    /\ \E d \in { Silence, FullScale, << >> }, env \in { Calm, Stormy } : Render(d, env)

LifeCalm ==
    /\ WarmUp + LifeStormFrames <= time
    /\ time < WarmUp + LifeFrames
    /\ Render(dataArray, Calm)

LifeNext == LifeStorm \/ LifeCalm

LifeSpec == BubbleInit /\ [][LifeNext]_vars

\* the next frame of a run: every step of LifeNext is a render call, render returns for
\* every array, and a render call is the only step that advances time
LifeFrame == time < WarmUp + LifeFrames /\ time' = time + 1

\* requestAnimationFrame(animate) at the end of every animate: the next frame comes
LifeLiveSpec == LifeSpec /\ WF_time(LifeFrame)

\* a bubble whose incremented age exceeds maxAge is Popping after the update; a Popping
\* bubble's popProgress grows by 0.1 + 0.1 * trebleIntensity (in doubles), and the
\* bubble is removed in the update in which popProgress reaches 1 or more; a Rising
\* bubble in the pool has age <= maxAge, and a Popping bubble in the pool has had
\* fewer than limit updates of its popProgress
BubbleUpdateRule(limit) ==
    RenderCall =>
      /\ BubblePass =>
            \A step \in { FlAdd(PointOne, FlMul(Double(audio'.trebleIntensity), PointOne)) } :
              \A i \in DOMAIN bubbles :
                IF bubbles[i].popping
                THEN \A grown \in { FlAdd(bubbles[i].popProgress, step) } :
                        IF FlGeqOne(grown)
                        THEN Survives(i) = {}
                        ELSE /\ Survives(i) # {}
                             /\ \A j \in Survives(i) : bubbles'[j].popProgress = grown
                ELSE bubbles[i].age + 1 > bubbles[i].maxAge =>
                        /\ Survives(i) # {}
                        /\ \A j \in Survives(i) : bubbles'[j].popping
      /\ \A j \in DOMAIN bubbles' :
            /\ ~bubbles'[j].popping => bubbles'[j].age <= bubbles'[j].maxAge
            /\ bubbles'[j].popping => bubbles'[j].popUpdates < limit

\* C14: a Rising bubble whose age exceeds maxAge is switched to Popping by the next
\* bubble update, and a Popping bubble is removed in the update in which its
\* popProgress (growing by 0.1 + 0.1 * trebleIntensity per update) reaches 1 or more,
\* which is at most 10 updates after popping starts.
C14_RemovedWithinTenUpdates == [][BubbleUpdateRule(10)]_vars

\* with arrays of at least one sample the removal is at most 11 updates after popping
\* starts: ten additions of the double 0.1 give 0.9999999999999999
RemovedWithinElevenUpdates ==
    [][dataArray' # << >> => BubbleUpdateRule(11)]_vars

\* a bubble that went Popping by age under silence is still in the pool after ten updates
TenUpdatesUnderSilence ==
    \E j \in DOMAIN bubbles :
        /\ bubbles[j].popping /\ bubbles[j].age > bubbles[j].maxAge
        /\ bubbles[j].popUpdates = 10 /\ ~FlGeqOne(bubbles[j].popProgress)

\* C16: under an unending sequence of render calls every bubble that is in the pool is
\* eventually removed from it, although bubbles are updated only in the frames in
\* which the bubbles pattern is drawn (no bubble is spawned after the first frame of a
\* run, so the pool is then empty).
C16_EveryBubbleEventuallyRemoved ==
    (Len(bubbles) > 0) ~> (Len(bubbles) = 0)

\* the same for feeds in which every array has at least one sample
SampledFeedRemovesEveryBubble ==
    [](dataArray # << >>) => C16_EveryBubbleEventuallyRemoved

\* the pool has emptied in a later bubbles phase than the one its bubbles started in
PoolEmptiedInSecondPhase ==
    /\ Len(bubbles) = 0 /\ Len(visited) > 0
    /\ commits >= 13

-----------------------------------------------------------------------------
(* ResizeSpec: an engine that is about to leave its first pattern, rendered at   *)
(* full scale and resized in any order, to sizes without a surface too           *)

\* frames before the first frame of a run of ResizeSpec, and render calls in a run
ResizeWarmUp == 400
ResizeFrames == 40

\* window sizes: those of Sizes, no width, neither width nor height
AnySizes == Sizes \cup { << 0, 30 >>, << 0, 0 >> }

ResizeInit ==
    \E size \in AnySizes, r \in Draws :
        \E a \in { After(Fresh(size[1], size[2], r), FullScale, ResizeWarmUp) } :
            /\ Starts(a.engine)
            /\ audio = AudioMetrics(FullScale, Len(FullScale))
            /\ dataArray = FullScale
            /\ commits = a.commits
            /\ twin = constructor(0, 0, 0, 0)

ResizeAnimate ==
    /\ time < ResizeWarmUp + ResizeFrames
    /\ Render(FullScale, Calm)

ResizeWindow ==
    \E size \in AnySizes, r \in Draws : Resize(size[1], size[2], r, r)

ResizeNext == ResizeAnimate \/ ResizeWindow

ResizeSpec == ResizeInit /\ [][ResizeNext]_vars

-----------------------------------------------------------------------------
(* Properties of resize and of the pools it fills *)

\* a step of the engine that is a resize call
ResizeCall == lastCall'.op = "resize" /\ time' = time

\* min(1200, floor(w * h / 800))
ExpectedParticles(w, h) ==
    IF (w * h) \div 800 < 1200 THEN (w * h) \div 800 ELSE 1200

\* C18: for every width >= 0 and height >= 0 the render call that follows a resize
\* immediately does not throw and leaves min(1200, floor(w * h / 800)) particles, and
\* the pool has that many particles after construction.
C18_ResizeThenRenderIsSafe ==
    /\ [](lastCall.op = "constructor" => particles.count = ExpectedParticles(width, height))
    /\ [][ (lastCall.op = "resize" /\ RenderCall) =>
              /\ lastCall'.thrown = "none"
              /\ particles'.count = ExpectedParticles(width, height) ]_vars

\* the particle count is min(1200, floor(w * h / 800)) for the engine's width and height
\* after every call, whether the call returned or threw
ParticleCountFollowsSize ==
    particles.count = ExpectedParticles(width, height)

\* C19: resize, called in a steady state or mid-transition, replaces the three pools and
\* leaves currentPattern, nextPattern, patternIndex, patternTimer, isTransitioning,
\* transitionProgress, time and hueBase as they are (patternDuration and
\* transitionSpeed are fixed numbers of the engine: nothing assigns them).
C19_ResizeKeepsScheduler ==
    [][ ResizeCall =>
          /\ currentPattern' = currentPattern /\ nextPattern' = nextPattern
          /\ patternIndex' = patternIndex /\ patternTimer' = patternTimer
          /\ isTransitioning' = isTransitioning
          /\ transitionProgress' = transitionProgress
          /\ time' = time /\ hueBase' = hueBase
          /\ particles' = [ count |-> ExpectedParticles(width', height'), pos |-> 0,
                             trail |-> << >> ]
          /\ Len(bubbles') \in 30 .. 49
          /\ \A j \in DOMAIN bubbles' :
                /\ bubbles'[j].age = 0 /\ ~bubbles'[j].popping
                /\ bubbles'[j].popProgress = FlZero
          /\ voronoiSeeds' \in 15 .. 24 ]_vars

\* a resize in the middle of a transition, to the size of 1200 particles
C19_Witness ==
    /\ lastCall.op = "resize"
    /\ isTransitioning /\ transitionProgress > 0 /\ patternTimer > 400
    /\ width = 1600 /\ particles = [ count |-> 1200, pos |-> 0, trail |-> << >> ]
    /\ hueBase > 0

\* C20: the Voronoi seed pool holds between 15 and 24 seeds after initialization, and
\* no render call creates or destroys a seed.
C20_SeedCountFixed ==
    /\ [](voronoiSeeds \in 15 .. 24)
    /\ [][RenderCall => voronoiSeeds' = voronoiSeeds]_vars

\* the voronoi pattern has just been drawn, with the largest number of seeds
C20_Witness ==
    /\ voronoiSeeds = 24
    /\ lastCall = [ op |-> "render", thrown |-> "none" ]
    /\ \E k \in DOMAIN drawn : drawn[k].pattern = "voronoi"

-----------------------------------------------------------------------------
(* Properties of the particle trails, checked under LongSpec *)

\* a render call in which the swarm pattern is drawn
SwarmPass == RenderCall /\ \E k \in DOMAIN drawn' : drawn'[k].pattern = "swarm"

\* C21: a particle's trail never has more than 20 entries, the most recent last: a swarm
\* update appends the particle's new position and, when the length would exceed 20,
\* discards the oldest entry, so the last entry is the particle's current position.
C21_TrailBounded ==
    /\ [](Len(particles.trail) <= 20)
    /\ [](particles.trail # << >> => particles.trail[Len(particles.trail)] = particles.pos)
    /\ [][ (SwarmPass /\ particles.count > 0) =>
              /\ particles'.pos # particles.pos
              /\ particles'.trail =
                    IF Len(particles.trail) < 20
                    THEN particles.trail \o << particles'.pos >>
                    ELSE SubSeq(particles.trail, 2, 20) \o << particles'.pos >> ]_vars

\* the trail is full and has lost its oldest entries
C21_Witness ==
    /\ Len(particles.trail) = 20 /\ particles.trail[1] > 1
    /\ particles.trail[20] = particles.pos

-----------------------------------------------------------------------------
(* Properties of the frame's drawing *)

\* what the claim of the cross-fade says of a render call
CrossFade ==
    RenderCall =>
        IF isTransitioning'
        THEN /\ drawn' = << [ pattern |-> currentPattern',
                              alpha |-> Sub(ProgressOne, transitionProgress') ],
                            [ pattern |-> nextPattern', alpha |-> transitionProgress' ] >>
             /\ Add(drawn'[1].alpha, drawn'[2].alpha) = ProgressOne
             /\ lastCall'.thrown = "none"
        ELSE /\ drawn' = << [ pattern |-> currentPattern', alpha |-> ProgressOne ] >>
             /\ lastCall'.thrown = "none"

\* C22: in every frame rendered while isTransitioning is true, currentPattern is drawn
\* first at alpha 1 - transitionProgress and then nextPattern at alpha
\* transitionProgress, the two alphas summing to 1; in every frame rendered while
\* isTransitioning is false exactly one pattern, currentPattern, is drawn.
C22_CrossFadeDrawsBoth == [][CrossFade]_vars

\* the same for the frames whose array has at least one sample, on a canvas with a surface
CrossFadeOfSampledFrames ==
    [][(dataArray' # << >> /\ width > 0 /\ height > 0 /\ ~IsNaN(transitionProgress))
           => CrossFade]_vars

\* a frame of a transition whose progress is NaN
FadeWithoutProgress ==
    isTransitioning /\ IsNaN(transitionProgress) /\ Len(drawn) = 2

-----------------------------------------------------------------------------
(* FractalSpec: the escape-time loop of renderFractal, one sampled pixel at a time.
   Plane coordinates are held in thousandths and rounded down after every
   multiplication; the loop's exits depend on the iteration count and on the
   comparison with 4 only. *)

Grid == 1000

\* the engine's fields and the page's references, which the loop does not write
engine ==
    << width, height, particles, bubbles, voronoiSeeds, time, hueBase, currentPattern,
       nextPattern, patternTimer, transitionProgress, isTransitioning, patternIndex,
       fractalUpdates, drawn, audio, dataArray, commits, twin, visited, lastCall,
       rendererRef, sinceCommit, sinceBegin, seedMoves >>

RECURSIVE Power(_, _)
Power(b, k) == IF k = 0 THEN 1 ELSE b * Power(b, k - 1)

\* const maxIter = 50 + Math.floor(audioIntensity * 50)
MaxIterOf(audioIntensity) ==
    IF IsNaN(audioIntensity) THEN NaN ELSE 50 + (50 * audioIntensity) \div Unit

\* const zoom = Math.pow(1.5, this.fractalZoom), fractalZoom having been added to with
\* audioIntensity: NaN for a NaN intensity, 0 below the smallest double, Infinity above
\* the largest, else the fraction 3^z / 2^z
ZoomOf(fractalZoom, audioIntensity) ==
    IF IsNaN(audioIntensity) THEN [ kind |-> "nan", num |-> 0, den |-> 0 ]
    ELSE IF fractalZoom < -1838 THEN [ kind |-> "zero", num |-> 0, den |-> 0 ]
    ELSE IF fractalZoom > 1750 THEN [ kind |-> "infinity", num |-> 0, den |-> 0 ]
    ELSE IF fractalZoom >= 0
         THEN [ kind |-> "finite", num |-> Power(3, fractalZoom), den |-> Power(2, fractalZoom) ]
         ELSE [ kind |-> "finite", num |-> Power(2, -fractalZoom), den |-> Power(3, -fractalZoom) ]

\* ((p - center) / (size * 0.25)) / zoom + offset, with center = size / 2
PlanePoint(p, size, zoom, offset) ==
    IF zoom.kind = "finite"
    THEN [ finite |-> TRUE,
           v |-> (2 * (2 * p - size) * zoom.den * Grid) \div (size * zoom.num) + offset ]
    ELSE IF zoom.kind = "infinity" THEN [ finite |-> TRUE, v |-> offset ]
    ELSE [ finite |-> FALSE, v |-> 0 ]

fractalOffsetX == -500
fractalOffsetY == 0

\* let x = x0; let y = y0; let iter = 0
LoopEntry(px, py, w, h, fractalZoom, audioIntensity, juliaC) ==
    LET zoom == ZoomOf(fractalZoom, audioIntensity)
        x0 == PlanePoint(px, w, zoom, fractalOffsetX)
        y0 == PlanePoint(py, h, zoom, fractalOffsetY)
    IN  [ pc |-> "while", finite |-> x0.finite /\ y0.finite, x |-> x0.v, y |-> y0.v,
          iter |-> 0, maxIter |-> MaxIterOf(audioIntensity),
          re |-> juliaC[1], im |-> juliaC[2] ]

\* a condition that never ends the loop of a point that does not escape
WhileConditionUncapped(l) ==
    l.finite /\ l.x * l.x + l.y * l.y <= 4 * Grid * Grid

\* x * x + y * y <= 4 && iter < maxIter
WhileCondition(l) ==
    /\ l.finite /\ l.x * l.x + l.y * l.y <= 4 * Grid * Grid
    /\ ~IsNaN(l.maxIter) /\ l.iter < l.maxIter

\* xtemp = x * x - y * y + juliaC.re; y = 2 * x * y + juliaC.im; x = xtemp; iter++
WhileBody(l) ==
    [ l EXCEPT !.x = (l.x * l.x - l.y * l.y) \div Grid + l.re,
               !.y = (2 * l.x * l.y) \div Grid + l.im,
               !.iter = l.iter + 1 ]

\* the values of fractalZoom followed: the initial 1 and its neighbours, negative ones,
\* and the two beyond the range of Math.pow's finite results
MaxZoom == 2
FractalZooms == (-MaxZoom .. MaxZoom) \cup { -2000, 2000 }

\* juliaC within the ranges lines 204-205 give it
JuliaConstants == { << -700, 270 >>, << -400, 70 >>, << -900, 570 >> }

Intensities == { 0, Unit \div 2, Unit, NaN }

\* the loops of lines 213-214 reach a pixel
SamplePixel ==
    /\ fractalLoop.pc = "idle"
    /\ \E px \in { 0, width \div 2, width - 2 }, py \in { 0, height \div 2 },
          z \in FractalZooms, a \in Intensities, c \in JuliaConstants :
           fractalLoop' = LoopEntry(px, py, width, height, z, a, c)
    /\ UNCHANGED << engine, waiter, hook >>

WhileIterate ==
    /\ fractalLoop.pc = "while"
    /\ WhileCondition(fractalLoop)
    /\ fractalLoop' = WhileBody(fractalLoop)
    /\ UNCHANGED << engine, waiter, hook >>

WhileExit ==
    /\ fractalLoop.pc = "while"
    /\ ~WhileCondition(fractalLoop)
    /\ fractalLoop' = [ fractalLoop EXCEPT !.pc = "done" ]
    /\ UNCHANGED << engine, waiter, hook >>

FractalInit ==
    /\ Starts(constructor(40, 30, 0, 0))
    /\ audio = NoAudio
    /\ dataArray = << >>
    /\ commits = 0
    /\ twin = constructor(0, 0, 0, 0)

FractalNext == SamplePixel \/ WhileIterate \/ WhileExit

FractalSpec == FractalInit /\ [][FractalNext]_vars

\* the loop's thread runs while it has a step to take
FractalLiveSpec == FractalSpec /\ WF_fractalLoop(WhileIterate \/ WhileExit)

\* C23: the escape-time loop terminates within the cap for every pixel and every
\* fractalZoom, positive, zero or negative: at most maxIter = 50 +
\* floor(50 * overallIntensity) <= 100 iterations per sampled pixel.
C23_EscapeLoopTerminates ==
    /\ [](fractalLoop.iter <= 100)
    /\ [](~IsNaN(fractalLoop.maxIter) =>
             fractalLoop.iter <= fractalLoop.maxIter /\ fractalLoop.maxIter <= 100)
    /\ [](IsNaN(fractalLoop.maxIter) => fractalLoop.iter = 0)
    /\ (fractalLoop.pc = "while") ~> (fractalLoop.pc = "done")

\* a loop ended by the cap of 100 at a negative fractalZoom, its point not having escaped
C23_Witness ==
    /\ fractalLoop.pc = "done" /\ fractalLoop.iter = 100 /\ fractalLoop.maxIter = 100
    /\ fractalLoop.x * fractalLoop.x + fractalLoop.y * fractalLoop.y <= 4 * Grid * Grid
    /\ fractalLoop.x # fractalOffsetX

-----------------------------------------------------------------------------
(* MountSpec: FlowFieldBackground mounts, constructs the engine on its canvas on the
   first updateSize and animates it; the canvas may yield no 2D context *)

MountFrames == 12

\* the fields as their initializers leave them, before the constructor's body
FieldInitializers ==
    [ constructor(0, 0, 0, 0) EXCEPT
        !.particles = [ count |-> 0, pos |-> 0, trail |-> << >> ],
        !.bubbles = << >>,
        !.voronoiSeeds = 0,
        !.lastCall = [ op |-> "none", thrown |-> "none" ] ]

\* a constructor that fills the pools before it looks at the context
newFlowFieldRendererPoolsFirst(ctx, w, h, rb, rv) ==
    IF ctx = "null"
    THEN [ constructor(w, h, rb, rv) EXCEPT
             !.lastCall = [ op |-> "constructor", thrown |-> "Error" ] ]
    ELSE constructor(w, h, rb, rv)

\* new FlowFieldRenderer(canvas): ctx is what canvas.getContext('2d', ...) returns
newFlowFieldRenderer(ctx, w, h, rb, rv) ==
    IF ctx = "null"
    THEN [ FieldInitializers EXCEPT
             !.lastCall = [ op |-> "constructor", thrown |-> "Error" ] ]
    ELSE constructor(w, h, rb, rv)

MountInit ==
    /\ \E n \in { FieldInitializers } :
          /\ width = n.width /\ height = n.height
          /\ particles = n.particles /\ bubbles = n.bubbles
          /\ voronoiSeeds = n.voronoiSeeds
          /\ time = n.time /\ hueBase = n.hueBase
          /\ currentPattern = n.currentPattern /\ nextPattern = n.nextPattern
          /\ patternTimer = n.patternTimer /\ transitionProgress = n.transitionProgress
          /\ isTransitioning = n.isTransitioning /\ patternIndex = n.patternIndex
          /\ fractalUpdates = n.fractalUpdates /\ drawn = n.drawn
          /\ visited = n.visited /\ lastCall = n.lastCall
          /\ sinceCommit = n.sinceCommit /\ sinceBegin = n.sinceBegin
          /\ seedMoves = n.seedMoves
    /\ rendererRef = "null"
    /\ Elsewhere
    /\ audio = NoAudio
    /\ dataArray = << >>
    /\ commits = 0
    /\ twin = constructor(0, 0, 0, 0)

\* updateSize with no renderer yet: rendererRef.current = new FlowFieldRenderer(canvas);
\* the assignment is not reached when the constructor throws
MountConstruct ==
    /\ rendererRef = "null"
    /\ \E ctx \in { "null", "context" }, size \in Sizes, r \in Draws :
          \E n \in { newFlowFieldRenderer(ctx, size[1], size[2], r, r) } :
             /\ Becomes(n)
             /\ rendererRef' = IF n.lastCall.thrown = "none" THEN "renderer" ELSE "null"
    /\ UNCHANGED << audio, dataArray, commits, twin >>

\* updateSize with a renderer
MountResize ==
    /\ rendererRef = "renderer"
    /\ \E size \in Sizes, r \in Draws : Resize(size[1], size[2], r, r)

\* the animation loop, which is not started without a renderer
MountAnimate ==
    /\ rendererRef = "renderer"
    /\ time < MountFrames
    /\ \E d \in SchedArrays : Render(d, Calm)

MountNext == MountConstruct \/ MountResize \/ MountAnimate

MountSpec == MountInit /\ [][MountNext]_vars

\* no initialize method has filled a pool
PoolsUninitialised ==
    particles.count = 0 /\ bubbles = << >> /\ voronoiSeeds = 0

\* C24: if the canvas yields no 2D context the constructor throws before any entity
\* pool is initialised, and no engine instance on which render or resize could be
\* called is produced.
C24_ConstructionFailsFast ==
    /\ [](lastCall = [ op |-> "constructor", thrown |-> "Error" ] =>
             rendererRef = "null" /\ PoolsUninitialised)
    /\ [](rendererRef = "null" => PoolsUninitialised /\ time = 0)
    /\ [][(RenderCall \/ ResizeCall) => rendererRef = "renderer"]_vars
    /\ [][lastCall.thrown = "Error" => lastCall'.op = "constructor"]_vars

\* a construction has thrown
C24_Witness ==
    lastCall = [ op |-> "constructor", thrown |-> "Error" ]

\* an engine in use
MountedAndAnimated == rendererRef = "renderer" /\ time = MountFrames

-----------------------------------------------------------------------------
(* Properties of the scheduler's fields, checked under LongSpec *)

\* C25: when not transitioning currentPattern is patternSequence[patternIndex]; when
\* transitioning nextPattern is patternSequence[patternIndex] and currentPattern is
\* patternSequence[(patternIndex - 1) mod 10], so the two differ throughout every
\* transition and no pattern renderer is invoked twice in one render call.
C25_PatternsFollowIndex ==
    /\ ~isTransitioning => currentPattern = patternSequence[patternIndex + 1]
    /\ isTransitioning =>
          /\ nextPattern = patternSequence[patternIndex + 1]
          /\ currentPattern = patternSequence[((patternIndex + 9) % 10) + 1]
          /\ currentPattern # nextPattern
    /\ \A i, j \in DOMAIN drawn : i # j => drawn[i].pattern # drawn[j].pattern

\* a frame of the transition that wraps the index: plasma fading into rays
C25_Witness ==
    /\ isTransitioning /\ patternIndex = 0 /\ commits = 9
    /\ drawn[1].pattern = "plasma" /\ drawn[2].pattern = "rays"


\* a render call in which a transition begins
Begins == RenderCall /\ ~isTransitioning /\ isTransitioning'

\* C26: whatever the audio input, a transition never begins until more than 300
\* render calls have been made since the previous commit (or since construction):
\* every pattern is drawn alone in steady state for at least 300 consecutive frames
\* before the next cross-fade starts.
C26_MinimumDwell ==
    /\ [][Begins => sinceCommit' > 300]_vars
    /\ [](isTransitioning => sinceCommit > 300)
    /\ [](sinceCommit <= 300 => Len(drawn) <= 1)

\* a transition begun by the first call that may begin one under full-scale audio, after
\* an earlier commit
C26_Witness ==
    isTransitioning /\ transitionProgress = 0 /\ commits > 0 /\ sinceCommit = 401


\* the animation loop requests the next frame for as long as frames are followed
LongFrame == time < MaxLongFrames /\ time' = time + 1

LongLiveSpec == LongSpec /\ WF_time(LongFrame)

\* C27: under an unending sequence of render calls with intensities in [0,1] and the
\* default settings, every steady state begins a transition within patternDuration + 1
\* frames and every begun transition commits within 50 frames of the frame that began
\* it, so each of the ten patterns becomes currentPattern time and again (within the
\* frames followed: each of the ten after the first commit).
C27_SchedulerProgress ==
    /\ [](~isTransitioning => sinceCommit <= patternDuration)
    /\ [][Begins => sinceCommit' <= patternDuration + 1]_vars
    /\ [](isTransitioning => sinceBegin < 50)
    /\ [][(RenderCall /\ isTransitioning /\ ~isTransitioning') => sinceBegin' <= 50]_vars
    /\ \A k \in 1 .. 10 : <>(currentPattern = patternSequence[k] /\ commits >= 1)

\* under silence, the slowest feed, the tenth commit has made rays the current pattern
\* again, every transition having begun at the 601st call and taken 50 more
C27_Witness ==
    /\ commits = 10 /\ currentPattern = "rays" /\ sinceCommit = 0 /\ sinceBegin = 50
    /\ time = 6510 /\ audio.audioIntensity = 0


\* a render call in which the pattern is drawn, alone or as one of a transition's two
Renders(pattern) == RenderCall /\ \E k \in DOMAIN drawn' : drawn'[k].pattern = pattern

\* C28: a render call in which neither drawn pattern is 'bubbles' leaves the bubble pool
\* unchanged (no spawn, no ageing, no pop progress, no removal); likewise the particle
\* pool is unchanged unless 'swarm' is drawn, the Voronoi seeds unless 'voronoi' is
\* drawn, and fractalZoom and juliaC unless 'fractal' is drawn.
C28_PoolsTouchedByOwnRenderer ==
    [][ RenderCall =>
          /\ ~Renders("bubbles") => bubbles' = bubbles
          /\ ~Renders("swarm") => particles' = particles
          /\ ~Renders("voronoi") => (voronoiSeeds' = voronoiSeeds /\ seedMoves' = seedMoves)
          /\ ~Renders("fractal") => fractalUpdates' = fractalUpdates ]_vars

\* waves drawn alone, after the fractal, the bubbles and the Voronoi cells have had their
\* turns and left their pools changed
C28_Witness ==
    /\ currentPattern = "waves" /\ ~isTransitioning /\ sinceCommit > 0
    /\ drawn = << [ pattern |-> "waves", alpha |-> ProgressOne ] >>
    /\ fractalUpdates > 0 /\ seedMoves > 0
    /\ Len(bubbles) > 0 /\ bubbles[1].age > 0
    /\ particles.pos = 0

-----------------------------------------------------------------------------
(* WaitSpec: the electron main process waits for the server it has spawned.  A probe is
   one http.get; node calls exactly one of its two callbacks, the response callback or
   the request's "error" listener.  Timers and callbacks run one at a time on the
   event loop. *)

MaxAttempts == 10

Ports == { 3222, 3223 }

Statuses == { 200, 304, 404, 500 }

\* resolve(value): settles the promise the first time, does nothing afterwards
resolve(w, value) ==
    [ w EXCEPT !.result = IF w.result = "pending" THEN value ELSE w.result,
               !.pc = "settled",
               !.resolves = w.resolves + 1 ]

\* http.get(`http://localhost:${port}`, callback).on("error", listener)
checkServer(w) ==
    [ w EXCEPT !.probesOut = w.probesOut + 1, !.probes = w.probes + 1 ]

\* a retry that sets its timer and gives up as well once the attempts are used up
retryTimerAlways(w) ==
    IF w.attempts + 1 < w.maxAttempts
    THEN [ w EXCEPT !.attempts = w.attempts + 1, !.failed = w.failed + 1,
                    !.timersOut = w.timersOut + 1 ]
    ELSE resolve([ w EXCEPT !.attempts = w.attempts + 1, !.failed = w.failed + 1,
                            !.timersOut = w.timersOut + 1 ], "false")

\* attempts++; if (attempts < maxAttempts) setTimeout(checkServer, 1000) else resolve(false)
retry(w) ==
    IF w.attempts + 1 < w.maxAttempts
    THEN [ w EXCEPT !.attempts = w.attempts + 1, !.failed = w.failed + 1,
                    !.timersOut = w.timersOut + 1 ]
    ELSE resolve([ w EXCEPT !.attempts = w.attempts + 1, !.failed = w.failed + 1 ],
                 "false")

\* the response callback
onResponse(w, statusCode) ==
    IF statusCode = 200 \/ statusCode = 304
    THEN resolve([ w EXCEPT !.probesOut = w.probesOut - 1 ], "true")
    ELSE retry([ w EXCEPT !.probesOut = w.probesOut - 1 ])

\* the "error" listener
onError(w) == retry([ w EXCEPT !.probesOut = w.probesOut - 1 ])

\* waitForServer(port, maxAttempts): the promise's executor runs checkServer at once
waitForServer(port, maxAttempts) ==
    checkServer([ NoWait EXCEPT !.pc = "waiting", !.port = port,
                                !.maxAttempts = maxAttempts ])

WaitCall ==
    /\ waiter.pc = "idle"
    /\ \E port \in Ports, maxAttempts \in 1 .. MaxAttempts :
          waiter' = waitForServer(port, maxAttempts)
    /\ UNCHANGED << engine, fractalLoop, hook >>

WaitResponse ==
    /\ waiter.probesOut > 0
    /\ \E statusCode \in Statuses : waiter' = onResponse(waiter, statusCode)
    /\ UNCHANGED << engine, fractalLoop, hook >>

WaitError ==
    /\ waiter.probesOut > 0
    /\ waiter' = onError(waiter)
    /\ UNCHANGED << engine, fractalLoop, hook >>

\* a retry timer fires: checkServer
WaitTimer ==
    /\ waiter.timersOut > 0
    /\ waiter' = checkServer([ waiter EXCEPT !.timersOut = waiter.timersOut - 1 ])
    /\ UNCHANGED << engine, fractalLoop, hook >>

WaitNext == WaitCall \/ WaitResponse \/ WaitError \/ WaitTimer

WaitSpec == FractalInit /\ [][WaitNext]_vars

\* every probe is answered or fails, and every timer fires
WaitLiveSpec == WaitSpec /\ WF_waiter(WaitResponse \/ WaitError \/ WaitTimer)

\* C29: waitForServer(port, maxAttempts) resolves exactly once: with true at the first
\* probe answered with status 200 or 304, otherwise with false after maxAttempts failed
\* probes; it never issues more than maxAttempts probes, never has two probes or retry
\* timers outstanding at once, and issues no probe after it has resolved, whichever of
\* its two callbacks each probe ends with.
C29_WaitResolvesOnce ==
    /\ [](waiter.resolves <= 1)
    /\ [](waiter.resolves = 1 <=> waiter.result # "pending")
    /\ [](waiter.probes <= waiter.maxAttempts)
    /\ [](waiter.probesOut + waiter.timersOut <= 1)
    /\ [](waiter.result # "pending" => waiter.probesOut = 0 /\ waiter.timersOut = 0)
    /\ [](waiter.result = "false" => waiter.failed = waiter.maxAttempts)
    /\ [](waiter.result = "true" => waiter.failed = waiter.probes - 1)
    /\ [][ waiter.result # "pending" => waiter' = waiter ]_vars
    /\ [][ (waiter.result = "pending" /\ waiter'.result = "true") =>
              waiter'.failed = waiter.failed ]_vars
    /\ [][ (waiter.pc = "waiting" /\ waiter'.failed = waiter.failed
              /\ waiter'.probes = waiter.probes /\ waiter'.timersOut = waiter.timersOut) =>
              waiter'.result = "true" ]_vars
    /\ (waiter.pc = "waiting") ~> (waiter.pc = "settled")

\* false after the last of several failed probes
C29_Witness ==
    /\ waiter.result = "false" /\ waiter.maxAttempts = MaxAttempts
    /\ waiter.probes = MaxAttempts /\ waiter.attempts = MaxAttempts

\* true at a probe that followed failed ones
ResolvedTrueAfterRetries ==
    waiter.result = "true" /\ waiter.failed = 2 /\ waiter.probes = 3

-----------------------------------------------------------------------------
(* HookSpec: a component that calls useQueuePersistence(state) on every render.  React
   runs the effect after the first render and after every render with a new state, the
   previous effect's cleanup first, and the last cleanup at unmount.  Time is in
   milliseconds; a timeout's callback runs when its delay has passed. *)

\* AUDIO_CONSTANTS.QUEUE_PERSIST_DEBOUNCE_MS ("1-second debounce")
QUEUE_PERSIST_DEBOUNCE_MS == 1000

MaxChanges == 4

MaxClock == 2500

\* the lapses of time followed between two events
Lapses == { 250, 1000 }

\* clearTimeout(id)
clearTimeout(h, id) == [ h EXCEPT !.timers = { t \in h.timers : t.id # id } ]

\* the cleanup the effect returns
cleanup(h) ==
    IF h.persistTimerRef # 0
    THEN [ clearTimeout(h, h.persistTimerRef) EXCEPT !.persistTimerRef = 0 ]
    ELSE h

\* setTimeout(() => { localStorage.set(QUEUE_STATE, state); ... }, QUEUE_PERSIST_DEBOUNCE_MS)
\* assigned to persistTimerRef.current; the callback holds the state of this render
setTimer(h) ==
    [ h EXCEPT !.ids = h.ids + 1,
               !.persistTimerRef = h.ids + 1,
               !.timers = h.timers \cup { [ id |-> h.ids + 1, state |-> h.state,
                                           due |-> h.now + QUEUE_PERSIST_DEBOUNCE_MS ] } ]

\* an effect that starts its timer without clearing the pending one, after a cleanup
\* that does nothing
effectWithoutClear(h) == setTimer(h)

\* the effect: clear any pending timer, set the new one
effect(h) ==
    setTimer(IF h.persistTimerRef # 0 THEN clearTimeout(h, h.persistTimerRef) ELSE h)

\* the timer's callback: the write, and persistTimerRef.current = null
persist(h, t, success) ==
    [ h EXCEPT !.stored = IF success THEN t.state ELSE h.stored,
               !.writes = Append(h.writes, [ state |-> t.state, at |-> h.now ]),
               !.persistTimerRef = 0,
               !.timers = h.timers \ { t } ]

\* a re-render with neither the cleanup nor the clear
rerenderWithoutClear(h) ==
    effectWithoutClear([ h EXCEPT !.state = h.state + 1, !.changedAt = h.now ])

\* a re-render with a new state: the previous effect's cleanup, then the effect
rerender(h) ==
    effect(cleanup([ h EXCEPT !.state = h.state + 1, !.changedAt = h.now ]))

HookMount ==
    /\ ~hook.mounted /\ hook.state = 0
    /\ hook' = effect([ hook EXCEPT !.mounted = TRUE, !.state = 1,
                                    !.changedAt = hook.now ])
    /\ UNCHANGED << engine, fractalLoop, waiter >>

HookStateChange ==
    /\ hook.mounted /\ hook.state < MaxChanges
    /\ hook' = rerender(hook)
    /\ UNCHANGED << engine, fractalLoop, waiter >>

HookTimer ==
    /\ \E t \in hook.timers, success \in BOOLEAN :
          /\ t.due = hook.now
          /\ hook' = persist(hook, t, success)
    /\ UNCHANGED << engine, fractalLoop, waiter >>

HookUnmount ==
    /\ hook.mounted
    /\ hook' = [ cleanup(hook) EXCEPT !.mounted = FALSE ]
    /\ UNCHANGED << engine, fractalLoop, waiter >>

\* time passes, up to the moment the next timeout is due
HookElapse ==
    /\ \E dt \in Lapses :
          /\ hook.now + dt <= MaxClock
          /\ \A t \in hook.timers : hook.now + dt <= t.due
          /\ hook' = [ hook EXCEPT !.now = hook.now + dt ]
    /\ UNCHANGED << engine, fractalLoop, waiter >>

HookNext == HookMount \/ HookStateChange \/ HookTimer \/ HookUnmount \/ HookElapse

HookSpec == FractalInit /\ [][HookNext]_vars

\* C30: at most one persist timer is pending at any time; every state change cancels
\* the pending timer and starts a new one, so a burst of changes results in exactly one
\* write, QUEUE_PERSIST_DEBOUNCE_MS after the last change, of the latest state and
\* never of a superseded state; unmounting cancels the pending timer so no write
\* happens after unmount.
C30_WritesDebounced ==
    /\ [](Cardinality(hook.timers) <= 1)
    /\ [](\A t \in hook.timers :
             /\ t.id = hook.persistTimerRef /\ t.state = hook.state
             /\ t.due = hook.changedAt + QUEUE_PERSIST_DEBOUNCE_MS /\ hook.now <= t.due)
    /\ [][ hook'.state # hook.state =>
              /\ hook.timers \cap hook'.timers = {}
              /\ Cardinality(hook'.timers) = 1 ]_vars
    /\ [][ hook'.writes # hook.writes =>
              /\ Len(hook'.writes) = Len(hook.writes) + 1
              /\ hook'.writes[Len(hook'.writes)] =
                    [ state |-> hook.state,
                      at |-> hook.changedAt + QUEUE_PERSIST_DEBOUNCE_MS ]
              /\ hook'.timers = {} ]_vars
    /\ [](\A i, j \in DOMAIN hook.writes : i < j => hook.writes[i].state < hook.writes[j].state)
    /\ [](~hook.mounted => hook.timers = {})
    /\ [][ ~hook'.mounted => hook'.writes = hook.writes ]_vars

\* a burst of three changes within the debounce time, then the one write of the third
\* state a second after it, the first two never written
C30_Witness ==
    /\ hook.writes = << [ state |-> 3, at |-> 1500 ] >>
    /\ hook.state = 3 /\ hook.changedAt = 500 /\ hook.timers = {}

\* unmounted with a state that was never written
UnmountedBeforeWrite ==
    ~hook.mounted /\ hook.state = 2 /\ hook.writes = << >> /\ hook.now = MaxClock

=============================================================================
